---- MODULE Spec2Model ----
(***************************************************************************)
(* StableHLO -> MHLO legalization                                          *)
(* (mlir_hlo/lib/Dialect/mhlo/transforms/stablehlo_legalize_to_hlo.cc).    *)
(*                                                                         *)
(* Two state machines share this module:                                   *)
(*   SpecAttr  applies convertAttr to one attribute drawn from a bounded   *)
(*             universe of attributes;                                     *)
(*   Spec      registers the conversion patterns and applies              *)
(*             StablehloToHloOpConverter::matchAndRewrite, statement by    *)
(*             statement, to the operations of a parent block.             *)
(***************************************************************************)
EXTENDS Integers, Sequences, FiniteSets, TLC

VARIABLES
    attrIn,        \* SpecAttr: the argument of convertAttr
    attrOut,       \* SpecAttr: the Attribute it returned
    attrDone,      \* SpecAttr: the call has returned
    patterns,      \* RewritePatternSet: the registered patterns, in order
    populateCalls, \* how often populateStablehloToHloPatterns has run
    ops,           \* the operations that exist, by identity
    block,         \* the parent block: identities of its operations, in order
    orig,          \* the operations of the block as they were parsed
    cur,           \* stablehloOp of the last call of matchAndRewrite, 0 before any
    pc,            \* the statement matchAndRewrite is at, idle when it is not running
    hloTypes,      \* local SmallVector<Type> hloTypes
    hloOperands,   \* local ValueRange hloOperands
    hloAttrs,      \* local SmallVector<NamedAttribute> hloAttrs
    hloOp,         \* local hloOp: identity of the new operation, 0 before it exists
    region,        \* position of the zip over the regions
    builds,        \* the builder calls made: source -> operation built and arguments
    result         \* LogicalResult returned for each source operation

(***************************************************************************)
(* Bounds of the model.                                                    *)
(***************************************************************************)
\* longest ArrayAttr enumerated
MaxLen == 2

\* most attributes on an operation
MaxAttrs == 2

\* most branches of a stablehlo.case
MaxBranches == 2

\* most calls of populateStablehloToHloPatterns on the pattern set
MaxPopulateCalls == 1

(***************************************************************************)
(* Attributes.  An attribute is a record                                   *)
(*   dialect : namespace of the attribute's dialect                        *)
(*   kind    : the attribute class                                         *)
(*   value   : the enum case (an integer) or a builtin payload             *)
(*   fields  : the parameters of a record-like attribute, in getter order  *)
(*   elems   : the elements of an ArrayAttr                                *)
(* The null Attribute (`return {}`) is NullAttr.                           *)
(***************************************************************************)
Attr(d, k, v, f, e) ==
    [dialect |-> d, kind |-> k, value |-> v, fields |-> f, elems |-> e]

NullAttr == Attr("", "null", 0, <<>>, <<>>)

\* The enum attribute classes handled through RETURN_CONVERTED_ENUM_ATTR.
EnumKinds ==
    {"ComparisonDirection", "ComparisonType", "CustomCallApiVersion", "FftType",
     "Precision", "RngAlgorithm", "RngDistribution", "Transpose"}

\* The record-like attribute classes rebuilt field by field.
RecordKinds ==
    {"ChannelHandle", "ConvDimensionNumbers", "DotDimensionNumbers",
     "GatherDimensionNumbers", "ScatterDimensionNumbers"}

\* Symbols of each enum in the two dialects, in declaration order: the enum
\* case with underlying integer n is the (n+1)-th symbol.  The two dialects
\* number their cases independently, and either may lack a symbol of the other.
StablehloSymbols(kind) ==
    CASE kind = "ComparisonDirection"  -> <<"EQ", "NE", "GE">>
      [] kind = "ComparisonType"       -> <<"NOTYPE", "FLOAT", "TOTALORDER">>
      [] kind = "CustomCallApiVersion" -> <<"API_VERSION_ORIGINAL", "API_VERSION_TYPED_FFI">>
      [] kind = "FftType"              -> <<"FFT", "IFFT">>
      [] kind = "Precision"            -> <<"DEFAULT", "HIGH", "HIGHEST">>
      [] kind = "RngAlgorithm"         -> <<"DEFAULT", "THREE_FRY", "PHILOX">>
      [] kind = "RngDistribution"      -> <<"UNIFORM", "NORMAL">>
      [] kind = "Transpose"            -> <<"NO_TRANSPOSE", "TRANSPOSE", "ADJOINT">>
      [] OTHER                         -> <<>>

MhloSymbols(kind) ==
    CASE kind = "ComparisonDirection"  -> <<"EQ", "GE", "NE">>
      [] kind = "ComparisonType"       -> <<"NOTYPE", "FLOAT">>
      [] kind = "CustomCallApiVersion" -> <<"API_VERSION_UNSPECIFIED", "API_VERSION_ORIGINAL">>
      [] kind = "FftType"              -> <<"FFT", "IFFT">>
      [] kind = "Precision"            -> <<"DEFAULT", "HIGH", "HIGHEST", "PACKED_NIBBLE">>
      [] kind = "RngAlgorithm"         -> <<"THREE_FRY", "DEFAULT">>
      [] kind = "RngDistribution"      -> <<"NORMAL", "UNIFORM">>
      [] kind = "Transpose"            -> <<"TRANSPOSE_INVALID", "NO_TRANSPOSE", "TRANSPOSE", "ADJOINT">>
      [] OTHER                         -> <<>>

\* stablehlo::stringify##Name(attr.getValue())
stringifyStablehlo(kind, value) == StablehloSymbols(kind)[value + 1]

\* mhlo::symbolize##Name(str): llvm::Optional of the mhlo case, -1 for None
symbolizeMhlo(kind, str) ==
    LET syms == MhloSymbols(kind)
        hits == {i \in 1..Len(syms) : syms[i] = str}
    IN  IF hits = {} THEN -1 ELSE (CHOOSE i \in hits : TRUE) - 1

\* RETURN_CONVERTED_ENUM_ATTR(Name), a mutant: the stablehlo case is reused
\* for the mhlo attribute without going through the symbol
ConvertedEnumAttrByCase(kind, attr) ==
    IF attr.value + 1 > Len(MhloSymbols(kind))
    THEN NullAttr
    ELSE Attr("mhlo", kind, attr.value, <<>>, <<>>)

\* RETURN_CONVERTED_ENUM_ATTR(Name)
ConvertedEnumAttr(kind, attr) ==
    LET stablehloValue == stringifyStablehlo(kind, attr.value)
        hloValue       == symbolizeMhlo(kind, stablehloValue)
    IN  IF hloValue = -1
        THEN NullAttr
        ELSE Attr("mhlo", kind, hloValue, <<>>, <<>>)

\* mhlo::XAttr::get(attr.getContext(), attr.getA(), attr.getB(), ...):
\* every getter of the stablehlo record, in the order of the mhlo parameters
ConvertedRecordAttr(kind, attr) ==
    Attr("mhlo", kind, 0, [i \in 1..Len(attr.fields) |-> attr.fields[i]], <<>>)

\* stablehloAttr.getDialect().getNamespace() == "stablehlo", a mutant: the
\* check for unhandled stablehlo attributes is missing
IsUnhandledStablehloNever(a) == FALSE

\* the same check, a mutant: every attribute of a dialect is rejected
IsUnhandledAnyDialect(a) == a.dialect # "builtin"

\* stablehloAttr.getDialect().getNamespace() == "stablehlo"
IsUnhandledStablehlo(a) == a.dialect = "stablehlo"

\* stablehloAttr.dyn_cast<ArrayAttr>()
IsArrayAttr(a) == a.dialect = "builtin" /\ a.kind = "Array"

\* ArrayAttr::get(stablehloAttrs.getContext(), hloAttrs)
ArrayAttrGet(converted) == Attr("builtin", "Array", 0, <<>>, converted)

RECURSIVE convertAttr(_)
RECURSIVE convertElems(_, _, _)
RECURSIVE convertElemsSkipFailed(_, _, _)

\* the loop over the elements, a mutant: an element that fails is skipped
convertElemsSkipFailed(elems, i, converted) ==
    IF i > Len(elems)
    THEN ArrayAttrGet(converted)
    ELSE LET hloAttr == convertAttr(elems[i])
         IN  IF hloAttr = NullAttr
             THEN convertElemsSkipFailed(elems, i + 1, converted)
             ELSE convertElemsSkipFailed(elems, i + 1, Append(converted, hloAttr))

\* the loop of convertAttr over the elements of an ArrayAttr: i is the next
\* element, converted the SmallVector hloAttrs built so far
convertElems(elems, i, converted) ==
    IF i > Len(elems)
    THEN ArrayAttrGet(converted)
    ELSE LET hloAttr == convertAttr(elems[i])
         IN  IF hloAttr = NullAttr
             THEN NullAttr
             ELSE convertElems(elems, i + 1, Append(converted, hloAttr))

\* Attribute convertAttr(Attribute stablehloAttr)
convertAttr(stablehloAttr) ==
    IF stablehloAttr.dialect = "stablehlo" /\ stablehloAttr.kind \in RecordKinds
    THEN ConvertedRecordAttr(stablehloAttr.kind, stablehloAttr)
    ELSE IF stablehloAttr.dialect = "stablehlo" /\ stablehloAttr.kind \in EnumKinds
    THEN ConvertedEnumAttr(stablehloAttr.kind, stablehloAttr)
    ELSE IF IsUnhandledStablehlo(stablehloAttr)
    THEN NullAttr
    ELSE IF IsArrayAttr(stablehloAttr)
    THEN convertElems(stablehloAttr.elems, 1, <<>>)
    ELSE stablehloAttr

(***************************************************************************)
(* The attributes convertAttr is applied to.                               *)
(***************************************************************************)
EnumAttrs(dialect) ==
    UNION {{Attr(dialect, k, v, <<>>, <<>>) :
              v \in 0..(Len(IF dialect = "mhlo" THEN MhloSymbols(k)
                                                ELSE StablehloSymbols(k)) - 1)} :
           k \in EnumKinds}

\* one or two instances of each record-like attribute; every parameter is a
\* list of integers (a scalar parameter is a list of one)
RecordFields(kind) ==
    CASE kind = "ChannelHandle" -> {<<<<1>>, <<0>>>>, <<<<2>>, <<1>>>>}
      [] kind = "ConvDimensionNumbers" ->
            {<<<<0>>, <<3>>, <<1, 2>>, <<2>>, <<3>>, <<0, 1>>, <<0>>, <<3>>, <<1, 2>>>>}
      [] kind = "DotDimensionNumbers" ->
            {<<<<0>>, <<0>>, <<2>>, <<1>>>>, <<<<>>, <<>>, <<1>>, <<0>>>>}
      [] kind = "GatherDimensionNumbers" -> {<<<<1, 2>>, <<0>>, <<0, 1>>, <<2>>>>}
      [] kind = "ScatterDimensionNumbers" -> {<<<<1>>, <<0>>, <<0, 2>>, <<1>>>>}

RecordAttrs(dialect) ==
    UNION {{Attr(dialect, k, 0, f, <<>>) : f \in RecordFields(k)} : k \in RecordKinds}

\* stablehlo attributes convertAttr has no case for
UnhandledStablehloAttrs ==
    {Attr("stablehlo", "TypeExtensions", 0, <<<<3>>>>, <<>>),
     Attr("stablehlo", "ArgResultAlias", 1, <<>>, <<>>)}

\* attributes of other dialects that are not ArrayAttr
ForeignLeafAttrs ==
    {Attr("builtin", "Integer", 0, <<>>, <<>>),
     Attr("builtin", "Integer", 7, <<>>, <<>>),
     Attr("builtin", "String", 1, <<>>, <<>>),
     Attr("builtin", "Unit", 0, <<>>, <<>>),
     Attr("chlo", "ComparisonDirection", 2, <<>>, <<>>)}
      \cup EnumAttrs("mhlo") \cup RecordAttrs("mhlo")

LeafAttrs ==
    EnumAttrs("stablehlo") \cup RecordAttrs("stablehlo")
      \cup UnhandledStablehloAttrs \cup ForeignLeafAttrs

\* the leaves enumerated as elements of arrays: an enum whose case number
\* differs between the dialects, an unhandled stablehlo attribute, a builtin
GE == Attr("stablehlo", "ComparisonDirection", 2, <<>>, <<>>)

Unhandled == Attr("stablehlo", "TypeExtensions", 0, <<<<3>>>>, <<>>)

Int7 == Attr("builtin", "Integer", 7, <<>>, <<>>)

ElemLeafAttrs == {GE, Unhandled, Int7}

ArraysOver(S) ==
    {Attr("builtin", "Array", 0, <<>>, s) : s \in UNION {[1..n -> S] : n \in 0..MaxLen}}

\* arrays of leaves, and arrays of leaves and of arrays of leaves
ArrayAttrs == ArraysOver(ElemLeafAttrs \cup ArraysOver(ElemLeafAttrs))

AttrInputs == LeafAttrs \cup ArrayAttrs

(***************************************************************************)
(* Operations.  An operation is a record                                   *)
(*   name        : the dialect-qualified operation name                    *)
(*   resultTypes : the result types, in order                              *)
(*   operands    : the operand values, in order                            *)
(*   attrs       : the NamedAttributes, in order: [name, value]            *)
(*   regions     : the regions, in order; a region is the list of its      *)
(*                 blocks and a block the list of its nested operations    *)
(***************************************************************************)
\* GET_OP_LIST of StablehloOps.cpp.inc: the operations of the dialect
StablehloOpList == <<"stablehlo.case", "stablehlo.compare", "stablehlo.while">>

\* StablehloToHloOp<StablehloOpTy>: the MHLO operation of a StableHLO one
StablehloToHloOp(name) ==
    CASE name = "stablehlo.case"    -> "mhlo.case"
      [] name = "stablehlo.compare" -> "mhlo.compare"
      [] name = "stablehlo.while"   -> "mhlo.while"

\* regions the generic builder of an operation adds when it is given no count
OdsNumRegions(name) ==
    CASE name \in {"stablehlo.compare", "mhlo.compare"} -> 0
      [] name \in {"stablehlo.while", "mhlo.while"}     -> 2
      [] OTHER                                          -> 0

\* the injected TypeConverter on one type: <<>> when there is no legal type
convertType(t) ==
    CASE t = "tensor<4xi1>"     -> <<"tensor<4xi1>">>
      [] t = "!stablehlo.token" -> <<"!mhlo.token">>
      [] OTHER                  -> <<>>

RECURSIVE convertTypesFrom(_, _, _)

\* TypeConverter::convertTypes(types, results): appends to results, stops at
\* the first type that does not convert
convertTypesFrom(types, i, results) ==
    IF i > Len(types)
    THEN [ok |-> TRUE, types |-> results]
    ELSE IF convertType(types[i]) = <<>>
         THEN [ok |-> FALSE, types |-> results]
         ELSE convertTypesFrom(types, i + 1, results \o convertType(types[i]))

\* adaptor.getOperands(): the operands as remapped by the conversion driver
AdaptorOperands(op) ==
    [i \in 1..Len(op.operands) |-> [value |-> op.operands[i].value, converted |-> TRUE]]

\* the builder is given no region count
NoRegionArg == -1

\* OperationState built by the generic builder and created
OpBuild(name, types, operands, attrs, numRegions) ==
    [name        |-> name,
     resultTypes |-> types,
     operands    |-> operands,
     attrs       |-> attrs,
     regions     |-> [r \in 1..(IF numRegions = NoRegionArg
                               THEN OdsNumRegions(name)
                               ELSE numRegions) |-> <<>>]]

\* the region count handed to the builder, a mutant: one branch too few
RegionCountArgOffByOne(op) ==
    IF op.name = "stablehlo.case" THEN Len(op.regions) - 1 ELSE NoRegionArg

\* the region count handed to the builder: stablehloOp.branches().size() for
\* stablehlo::CaseOp, no argument otherwise
RegionCountArg(op) ==
    IF op.name = "stablehlo.case" THEN Len(op.regions) ELSE NoRegionArg

\* inlineRegionBefore, what is left in the source region; a mutant: the
\* blocks are cloned, not moved
SourceRegionAfterClone(stablehloRegion) == stablehloRegion

\* rewriter.inlineRegionBefore(region, parent, before): region is left empty
SourceRegionAfterInline(stablehloRegion) == <<>>

\* rewriter.inlineRegionBefore(stablehloRegion, hloRegion, hloRegion.end()):
\* the blocks of stablehloRegion follow those hloRegion has
TargetRegionAfterInline(stablehloRegion, hloRegion) == hloRegion \o stablehloRegion

\* hloAttrs.push_back, a mutant: the attribute is inserted in front
PushBackAttrInFront(attrs, name, hloAttr) ==
    <<[name |-> name, value |-> hloAttr]>> \o attrs

\* hloAttrs.push_back({stablehloAttr.getName(), hloAttr})
PushBackAttr(attrs, name, hloAttr) ==
    Append(attrs, [name |-> name, value |-> hloAttr])

\* patterns->add, a mutant: the last operation of the list gets no pattern
PatternsAddAllButLast(set, opList) ==
    set \o [i \in 1..(Len(opList) - 1) |-> [root |-> opList[i]]]

\* patterns->add<StablehloToHloOpConverter<StablehloOpTypes>...>(converter, ctx)
PatternsAdd(set, opList) ==
    set \o [i \in 1..Len(opList) |-> [root |-> opList[i]]]

\* the declaration of hloTypes, a mutant: the vector outlives the call
StaticHloTypes == hloTypes

\* SmallVector<Type> hloTypes;
DeclareHloTypes == <<>>

Min(a, b) == IF a < b THEN a ELSE b

\* identity of the next operation created
FreshId == CHOOSE n \in 1..(Cardinality(DOMAIN ops) + 1) : n \notin DOMAIN ops

\* the block with operation old replaced by operation new
ReplaceInBlock(b, old, new) ==
    [i \in 1..Len(b) |-> IF b[i] = old THEN new ELSE b[i]]

(***************************************************************************)
(* The programs the conversion is run on: a parent block of two unrelated  *)
(* StableHLO operations, whose regions hold operations converted before.   *)
(***************************************************************************)
SourceIds == {1, 2}

AttrNames == <<"comparison_direction", "precision_config", "backend_config", "api_version">>

\* the values enumerated for the attribute at each position
AttrValuesAt(i) ==
    CASE i = 1 -> {GE, Unhandled}
      [] i = 2 -> {Attr("builtin", "Array", 0, <<>>, <<GE, Int7>>), Unhandled}
      [] i = 3 -> {Int7, Unhandled}
      [] OTHER -> {GE, Unhandled}

AttrLists ==
    UNION {{[i \in 1..n |-> [name |-> AttrNames[i], value |-> f[i]]] :
              f \in {g \in [1..n -> UNION {AttrValuesAt(i) : i \in 1..n}] :
                       \A i \in 1..n : g[i] \in AttrValuesAt(i)}} :
           n \in 0..MaxAttrs}

TypeLists ==
    {<<"tensor<4xi1>">>,
     <<"tensor<4xi1>", "!stablehlo.token">>,
     <<"!stablehlo.token", "!stablehlo.unregistered">>}

OperandsOf(name) ==
    CASE name = "stablehlo.compare" ->
            <<[value |-> "%lhs", converted |-> FALSE], [value |-> "%rhs", converted |-> FALSE]>>
      [] OTHER -> <<[value |-> "%arg", converted |-> FALSE]>>

\* region r of source operation p: two blocks of nested operations
RegionOf(p, r) == << << <<p, r, 1>>, <<p, r, 2>> >>, << <<p, r, 3>> >> >>

\* name and region count of the operations enumerated
Shapes ==
    {[name |-> "stablehlo.compare", n |-> OdsNumRegions("stablehlo.compare")],
     [name |-> "stablehlo.while", n |-> OdsNumRegions("stablehlo.while")]}
      \cup {[name |-> "stablehlo.case", n |-> n] : n \in 1..MaxBranches}

SourceOps(p) ==
    {[name        |-> sh.name,
      resultTypes |-> t,
      operands    |-> OperandsOf(sh.name),
      attrs       |-> a,
      regions     |-> [r \in 1..sh.n |-> RegionOf(p, r)]] :
       sh \in Shapes, t \in TypeLists, a \in AttrLists}

Programs ==
    {[p \in SourceIds |-> IF p = 1 THEN a ELSE b] : a \in SourceOps(1), b \in SourceOps(2)}

NoBuild == [op |-> 0, numRegions |-> NoRegionArg]

vars ==
    <<attrIn, attrOut, attrDone, patterns, populateCalls, ops, block, orig, cur, pc,
      hloTypes, hloOperands, hloAttrs, hloOp, region, builds, result>>

attrVars == <<attrIn, attrOut, attrDone>>

opVars ==
    <<patterns, populateCalls, ops, block, orig, cur, pc, hloTypes, hloOperands,
      hloAttrs, hloOp, region, builds, result>>

Init ==
    /\ attrIn = NullAttr
    /\ attrOut = NullAttr
    /\ attrDone = FALSE
    /\ patterns = <<>>
    /\ populateCalls = 0
    /\ ops \in Programs
    /\ orig = ops
    /\ block = <<1, 2>>
    /\ cur = 0
    /\ pc = "idle"
    /\ hloTypes = <<>>
    /\ hloOperands = <<>>
    /\ hloAttrs = <<>>
    /\ hloOp = 0
    /\ region = 1
    /\ builds = [p \in SourceIds |-> NoBuild]
    /\ result = [p \in SourceIds |-> "none"]

\* populateStablehloToHloPatterns(patterns, converter, context), called by
\* the pass before it runs the conversion
Populate ==
    /\ pc = "idle"
    /\ populateCalls < MaxPopulateCalls
    /\ \A p \in SourceIds : result[p] = "none"
    /\ patterns' = PatternsAdd(patterns, StablehloOpList)
    /\ populateCalls' = populateCalls + 1
    /\ UNCHANGED <<attrVars, ops, block, orig, cur, pc, hloTypes, hloOperands,
                   hloAttrs, hloOp, region, builds, result>>

\* return failure();
ReturnFailure(p) ==
    /\ result' = [result EXCEPT ![p] = "failure"]
    /\ pc' = "idle"

\* matchAndRewrite, a mutant: replaceOpWithNewOp is called as soon as the
\* result types are converted, before the attributes are
MatchAndRewriteBuildFirst(p) ==
    /\ pc = "idle"
    /\ \E i \in 1..Len(block) : block[i] = p
    /\ result[p] = "none"
    /\ \E i \in 1..Len(patterns) : patterns[i].root = ops[p].name
    /\ cur' = p
    /\ LET r == convertTypesFrom(ops[p].resultTypes, 1, DeclareHloTypes)
       IN  /\ hloTypes' = r.types
           /\ IF ~r.ok
              THEN /\ ReturnFailure(p)
                   /\ UNCHANGED <<hloOperands, hloAttrs, ops, hloOp, block, builds>>
              ELSE /\ hloOperands' = AdaptorOperands(ops[p])
                   /\ hloAttrs' = <<>>
                   /\ pc' = "attrs"
                   /\ ops' = (FreshId :> OpBuild(StablehloToHloOp(ops[p].name), r.types,
                                                 AdaptorOperands(ops[p]), <<>>,
                                                 RegionCountArg(ops[p]))) @@ ops
                   /\ hloOp' = FreshId
                   /\ block' = ReplaceInBlock(block, p, FreshId)
                   /\ builds' = [builds EXCEPT ![p] =
                                   [op |-> FreshId, numRegions |-> RegionCountArg(ops[p])]]
                   /\ UNCHANGED result
    /\ UNCHANGED <<attrVars, patterns, populateCalls, orig, region>>

\* matchAndRewrite, lines 144-156: the driver calls the pattern registered
\* for the operation; the result types are converted
MatchAndRewrite(p) ==
    /\ pc = "idle"
    /\ \E i \in 1..Len(block) : block[i] = p
    /\ result[p] = "none"
    /\ \E i \in 1..Len(patterns) : patterns[i].root = ops[p].name
    /\ cur' = p
    /\ LET r == convertTypesFrom(ops[p].resultTypes, 1, DeclareHloTypes)
       IN  /\ hloTypes' = r.types
           /\ IF ~r.ok
              THEN /\ ReturnFailure(p)
                   /\ UNCHANGED <<hloOperands, hloAttrs>>
              ELSE /\ hloOperands' = AdaptorOperands(ops[p])
                   /\ hloAttrs' = <<>>
                   /\ pc' = "attrs"
                   /\ UNCHANGED result
    /\ UNCHANGED <<attrVars, patterns, populateCalls, ops, block, orig, hloOp,
                   region, builds>>

\* matchAndRewrite, lines 157-161: one iteration of the loop over getAttrs()
ConvertAttrLoop ==
    /\ pc = "attrs"
    /\ Len(hloAttrs) < Len(ops[cur].attrs)
    /\ LET stablehloAttr == ops[cur].attrs[Len(hloAttrs) + 1]
           hloAttr       == convertAttr(stablehloAttr.value)
       IN  IF hloAttr = NullAttr
           THEN /\ ReturnFailure(cur)
                /\ UNCHANGED hloAttrs
           ELSE /\ hloAttrs' = PushBackAttr(hloAttrs, stablehloAttr.name, hloAttr)
                /\ UNCHANGED <<pc, result>>
    /\ UNCHANGED <<attrVars, patterns, populateCalls, ops, block, orig, cur,
                   hloTypes, hloOperands, hloOp, region, builds>>

\* matchAndRewrite, lines 167-175: rewriter.replaceOpWithNewOp
ReplaceOpWithNewOp ==
    /\ pc = "attrs"
    /\ Len(hloAttrs) = Len(ops[cur].attrs)
    /\ LET new == OpBuild(StablehloToHloOp(ops[cur].name), hloTypes, hloOperands,
                          hloAttrs, RegionCountArg(ops[cur]))
       IN  /\ ops' = (FreshId :> new) @@ ops
           /\ hloOp' = FreshId
           /\ block' = ReplaceInBlock(block, cur, FreshId)
           /\ builds' = [builds EXCEPT ![cur] =
                           [op |-> FreshId, numRegions |-> RegionCountArg(ops[cur])]]
    /\ region' = 1
    /\ pc' = "regions"
    /\ UNCHANGED <<attrVars, patterns, populateCalls, orig, cur, hloTypes,
                   hloOperands, hloAttrs, result>>

\* matchAndRewrite, lines 179-182: one iteration of the zip over the regions
InlineRegionLoop ==
    /\ pc = "regions"
    /\ region <= Min(Len(ops[cur].regions), Len(ops[hloOp].regions))
    /\ ops' = [ops EXCEPT
                 ![hloOp].regions[region] =
                     TargetRegionAfterInline(ops[cur].regions[region], @),
                 ![cur].regions[region] = SourceRegionAfterInline(@)]
    /\ region' = region + 1
    /\ UNCHANGED <<attrVars, patterns, populateCalls, block, orig, cur, pc,
                   hloTypes, hloOperands, hloAttrs, hloOp, builds, result>>

\* matchAndRewrite, line 183: return success();
ReturnSuccess ==
    /\ pc = "regions"
    /\ region > Min(Len(ops[cur].regions), Len(ops[hloOp].regions))
    /\ result' = [result EXCEPT ![cur] = "success"]
    /\ pc' = "idle"
    /\ UNCHANGED <<attrVars, patterns, populateCalls, ops, block, orig, cur,
                   hloTypes, hloOperands, hloAttrs, hloOp, region, builds>>

Next ==
    \/ Populate
    \/ \E p \in SourceIds : MatchAndRewrite(p)
    \/ ConvertAttrLoop
    \/ ReplaceOpWithNewOp
    \/ InlineRegionLoop
    \/ ReturnSuccess

Spec == Init /\ [][Next]_vars

(***************************************************************************)
(* SpecAttr: convertAttr called on one attribute.                          *)
(***************************************************************************)
InitAttr ==
    /\ attrIn \in AttrInputs
    /\ attrOut = NullAttr
    /\ attrDone = FALSE
    /\ patterns = <<>>
    /\ populateCalls = 0
    /\ ops = <<>>
    /\ orig = <<>>
    /\ block = <<>>
    /\ cur = 0
    /\ pc = "idle"
    /\ hloTypes = <<>>
    /\ hloOperands = <<>>
    /\ hloAttrs = <<>>
    /\ hloOp = 0
    /\ region = 1
    /\ builds = <<>>
    /\ result = <<>>

CallConvertAttr ==
    /\ ~attrDone
    /\ attrOut' = convertAttr(attrIn)
    /\ attrDone' = TRUE
    /\ UNCHANGED <<attrIn, opVars>>

NextAttr == CallConvertAttr

SpecAttr == InitAttr /\ [][NextAttr]_vars

(***************************************************************************)
(* Properties of convertAttr, checked under SpecAttr.                      *)
(***************************************************************************)
RECURSIVE HasUnhandledStablehlo(_)

\* a is a stablehlo attribute of no handled class, or an array that holds one
\* at some depth
HasUnhandledStablehlo(a) ==
    \/ a.dialect = "stablehlo" /\ a.kind \notin (EnumKinds \cup RecordKinds)
    \/ /\ IsArrayAttr(a)
       /\ \E i \in 1..Len(a.elems) : HasUnhandledStablehlo(a.elems[i])

SymbolsOf(syms) == {syms[i] : i \in 1..Len(syms)}

\* C2: convertAttr of a stablehlo attribute that is neither a handled record
\* nor a handled enum returns the null Attribute, never its argument, and so
\* does convertAttr of an ArrayAttr that holds such an attribute at any depth.
C2_UnhandledStablehloFails ==
    (attrDone /\ HasUnhandledStablehlo(attrIn)) =>
        (attrOut = NullAttr /\ attrOut # attrIn)

\* C2 witness: convertAttr has returned for an array whose element is an
\* array holding an unhandled stablehlo attribute next to a convertible one.
C2_Witness ==
    /\ attrDone
    /\ IsArrayAttr(attrIn)
    /\ \E i \in 1..Len(attrIn.elems) :
          /\ IsArrayAttr(attrIn.elems[i])
          /\ Len(attrIn.elems[i].elems) = 2
          /\ attrIn.elems[i].elems[1] = GE
          /\ attrIn.elems[i].elems[2] = Unhandled
    /\ attrOut = NullAttr

\* C3: convertAttr of an ArrayAttr whose elements all convert is an ArrayAttr
\* of the same length whose i-th element is convertAttr of the i-th element
\* (the empty array gives the empty array); if one element fails, the result
\* is the null Attribute.
C3_ArrayElementwise ==
    (attrDone /\ IsArrayAttr(attrIn)) =>
        IF \A i \in 1..Len(attrIn.elems) : convertAttr(attrIn.elems[i]) # NullAttr
        THEN /\ IsArrayAttr(attrOut)
             /\ Len(attrOut.elems) = Len(attrIn.elems)
             /\ \A i \in 1..Len(attrIn.elems) :
                   attrOut.elems[i] = convertAttr(attrIn.elems[i])
             /\ (attrIn.elems = <<>> => attrOut = attrIn)
        ELSE attrOut = NullAttr

\* C3 witness: a two-element array, one element itself a non-empty array, has
\* been converted to an array that differs from it.
C3_Witness ==
    /\ attrDone
    /\ IsArrayAttr(attrIn)
    /\ Len(attrIn.elems) = 2
    /\ IsArrayAttr(attrIn.elems[1])
    /\ attrIn.elems[1].elems # <<>>
    /\ attrIn.elems[2] = GE
    /\ IsArrayAttr(attrOut)
    /\ attrOut # attrIn

\* C4: convertAttr of a stablehlo enum attribute with symbol s is the mhlo
\* attribute of the same enum whose symbol is s when mhlo has a symbol s, and
\* the null Attribute when it has none.
C4_EnumBySymbol ==
    (attrDone /\ attrIn.dialect = "stablehlo" /\ attrIn.kind \in EnumKinds) =>
        LET s == StablehloSymbols(attrIn.kind)[attrIn.value + 1]
        IN  IF s \in SymbolsOf(MhloSymbols(attrIn.kind))
            THEN /\ attrOut.dialect = "mhlo"
                 /\ attrOut.kind = attrIn.kind
                 /\ attrOut.value \in 0..(Len(MhloSymbols(attrIn.kind)) - 1)
                 /\ MhloSymbols(attrIn.kind)[attrOut.value + 1] = s
            ELSE attrOut = NullAttr

\* C4 witness: an enum attribute has been converted to an mhlo attribute
\* whose case number differs from the stablehlo one.
C4_Witness ==
    /\ attrDone
    /\ attrIn.dialect = "stablehlo"
    /\ attrIn.kind \in EnumKinds
    /\ attrOut.dialect = "mhlo"
    /\ attrOut.value # attrIn.value

\* C5: convertAttr of an attribute that is not of the stablehlo dialect and
\* is not an ArrayAttr succeeds and returns its argument.
C5_ForeignIdentity ==
    (attrDone /\ attrIn.dialect # "stablehlo" /\ ~IsArrayAttr(attrIn)) =>
        (attrOut = attrIn /\ attrOut # NullAttr)

\* C5 witness: convertAttr has returned for an attribute of another dialect
\* than builtin and stablehlo.
C5_Witness ==
    /\ attrDone
    /\ attrIn.dialect \notin {"stablehlo", "builtin"}
    /\ attrOut = attrIn

(***************************************************************************)
(* Properties of matchAndRewrite and of the registration, checked under    *)
(* Spec.                                                                   *)
(***************************************************************************)
InBlock(p) == \E i \in 1..Len(block) : block[i] = p

TypesFail(op) == ~convertTypesFrom(op.resultTypes, 1, <<>>).ok

AttrFails(op) == \E i \in 1..Len(op.attrs) : convertAttr(op.attrs[i].value) = NullAttr

\* the operations created by the rewriter
CreatedOps == DOMAIN ops \ SourceIds

\* C1: an application that returned failure left its operation as it was: in
\* the block, with its attributes, operands and regions, and no operation was
\* created for it; and an operation whose result types or whose attributes do
\* not convert is never converted.
C1_FailureLeavesSourceUntouched ==
    /\ \A p \in SourceIds :
          result[p] = "failure" =>
              /\ ops[p] = orig[p]
              /\ block[p] = p
              /\ builds[p] = NoBuild
    /\ \A n \in CreatedOps :
          \E p \in SourceIds : builds[p].op = n /\ result[p] # "failure"
    /\ \A p \in SourceIds :
          (TypesFail(orig[p]) \/ AttrFails(orig[p])) =>
              (result[p] # "success" /\ ops[p] = orig[p] /\ builds[p] = NoBuild)

\* C1 witness: an application returned failure at the second attribute, after
\* the result types and the first attribute had been converted.
C1_Witness ==
    \E p \in SourceIds :
        /\ result[p] = "failure"
        /\ ~TypesFail(orig[p])
        /\ Len(orig[p].attrs) = 2
        /\ convertAttr(orig[p].attrs[1].value) # NullAttr
        /\ orig[p].regions # <<>>
        /\ cur = p
        /\ Len(hloAttrs) = 1

\* where a nested operation x sits in the regions of the existing operations:
\* <<operation, region, block, position>>
PlacesOf(x) ==
    UNION {UNION {UNION {{<<id, r, b, k>> :
                           k \in {j \in 1..Len(ops[id].regions[r][b]) :
                                    ops[id].regions[r][b][j] = x}} :
                         b \in 1..Len(ops[id].regions[r])} :
                  r \in 1..Len(ops[id].regions)} :
           id \in DOMAIN ops}

\* the nested operations of the regions of op
AllNested(op) ==
    UNION {UNION {{op.regions[r][b][k] : k \in 1..Len(op.regions[r][b])} :
                    b \in 1..Len(op.regions[r])} :
           r \in 1..Len(op.regions)}

\* C6: after a successful application the i-th region of the new operation
\* holds the blocks the i-th region of the source held, in their order, for
\* every region of the source; the source holds no blocks; every nested
\* operation sits in exactly one place.
C6_RegionsRelocated ==
    \A p \in SourceIds :
        result[p] = "success" =>
            LET new == ops[builds[p].op]
            IN  /\ \A i \in 1..Len(orig[p].regions) :
                      /\ i <= Len(new.regions)
                      /\ new.regions[i] = orig[p].regions[i]
                      /\ ops[p].regions[i] = <<>>
                /\ \A x \in AllNested(orig[p]) :
                      /\ Cardinality(PlacesOf(x)) = 1
                      /\ \A w \in PlacesOf(x) : w[1] = builds[p].op

\* C6 witness: an operation with two non-empty regions has been converted.
C6_Witness ==
    \E p \in SourceIds :
        /\ result[p] = "success"
        /\ Len(orig[p].regions) = 2
        /\ orig[p].regions[1] # orig[p].regions[2]
        /\ Len(orig[p].regions[1]) = 2
        /\ ops[builds[p].op].regions = orig[p].regions

PatternCount(name) == Cardinality({i \in 1..Len(patterns) : patterns[i].root = name})

\* C7: each call of populateStablehloToHloPatterns registers exactly one
\* pattern for every operation of the list (one pattern each after the one
\* call the pass makes); a successful application created exactly one
\* operation, of the MHLO counterpart, with as many operands, results and
\* regions as the source, the operands being the adaptor's in their order,
\* and put it in the place of the source.
C7_OneRuleOneReplacement ==
    /\ \A i \in 1..Len(StablehloOpList) :
          PatternCount(StablehloOpList[i]) = populateCalls
    /\ Len(patterns) = populateCalls * Len(StablehloOpList)
    /\ \A p \in SourceIds :
          result[p] = "success" =>
              /\ builds[p].op \in CreatedOps
              /\ Cardinality({n \in CreatedOps : \E q \in SourceIds : builds[q].op = n})
                    = Cardinality(CreatedOps)
              /\ \A q \in SourceIds : q # p => builds[q].op # builds[p].op
              /\ block[p] = builds[p].op
              /\ ~InBlock(p)
              /\ LET new == ops[builds[p].op]
                 IN  /\ new.name = StablehloToHloOp(orig[p].name)
                     /\ Len(new.operands) = Len(orig[p].operands)
                     /\ Len(new.resultTypes) = Len(orig[p].resultTypes)
                     /\ Len(new.regions) = Len(orig[p].regions)
                     /\ new.operands = AdaptorOperands(orig[p])

\* C7 witness: with the patterns registered once, a stablehlo.while, the
\* last operation of the list, has been converted to an mhlo.while.
C7_Witness ==
    \E p \in SourceIds :
        /\ populateCalls = 1
        /\ result[p] = "success"
        /\ orig[p].name = "stablehlo.while"
        /\ ops[builds[p].op].name = "mhlo.while"
        /\ Len(ops[builds[p].op].resultTypes) = 2

\* C8: the builder of the replacement of a stablehlo.case is given the number
\* of regions of the source as region count, and after success the
\* replacement holds the regions of the source in their order; the builder of
\* any other operation is given no region count.
C8_CaseRegionCount ==
    \A p \in SourceIds :
        /\ builds[p].op # 0 =>
              IF orig[p].name = "stablehlo.case"
              THEN /\ builds[p].numRegions = Len(orig[p].regions)
                   /\ Len(ops[builds[p].op].regions) = Len(orig[p].regions)
              ELSE builds[p].numRegions = NoRegionArg
        /\ (result[p] = "success" /\ orig[p].name = "stablehlo.case") =>
              ops[builds[p].op].regions = orig[p].regions

\* C8 witness: a stablehlo.case with MaxBranches regions has been converted.
C8_Witness ==
    \E p \in SourceIds :
        /\ result[p] = "success"
        /\ orig[p].name = "stablehlo.case"
        /\ Len(orig[p].regions) = MaxBranches
        /\ builds[p].numRegions = MaxBranches

\* the operation matchAndRewrite builds from op when nothing fails
ExpectedReplacement(op) ==
    [name        |-> StablehloToHloOp(op.name),
     resultTypes |-> convertTypesFrom(op.resultTypes, 1, <<>>).types,
     operands    |-> AdaptorOperands(op),
     attrs       |-> [i \in 1..Len(op.attrs) |->
                        [name |-> op.attrs[i].name,
                         value |-> convertAttr(op.attrs[i].value)]],
     regions     |-> op.regions]

\* C9: for operations A and B of the block where an attribute of A does not
\* convert and the types and attributes of B do: the application to B never
\* fails, its replacement is the one built from B alone whether A has failed
\* before, fails afterwards or is never visited, and while B is not being
\* converted the failure of A leaves B as it was.
C9_FailureIsolation ==
    \A a \in SourceIds, b \in SourceIds :
        (a # b /\ ~TypesFail(orig[a]) /\ AttrFails(orig[a])
               /\ ~TypesFail(orig[b]) /\ ~AttrFails(orig[b])) =>
            /\ result[b] # "failure"
            /\ result[b] = "success" =>
                  /\ ops[builds[b].op] = ExpectedReplacement(orig[b])
                  /\ block[b] = builds[b].op
            /\ (result[a] = "failure" /\ result[b] = "none" /\ cur = a) =>
                  (ops[b] = orig[b] /\ block[b] = b /\ builds[b] = NoBuild)

\* C9 witness: A failed on an attribute, and B, with result types that the
\* converter changes, was converted after that.
C9_Witness ==
    \E a \in SourceIds, b \in SourceIds :
        /\ a # b
        /\ ~TypesFail(orig[a])
        /\ AttrFails(orig[a])
        /\ result[a] = "failure"
        /\ result[b] = "success"
        /\ cur = b
        /\ Len(orig[b].resultTypes) = 2
        /\ orig[b].attrs # <<>>

\* C10: after a successful application the new operation has the attribute
\* names of the source, in their order, each with convertAttr of the source's
\* value; an operation with an attribute that does not convert, whatever its
\* position, is never converted.
C10_AttributesByName ==
    \A p \in SourceIds :
        /\ result[p] = "success" =>
              LET new == ops[builds[p].op]
              IN  /\ Len(new.attrs) = Len(orig[p].attrs)
                  /\ \A i \in 1..Len(orig[p].attrs) :
                        /\ new.attrs[i].name = orig[p].attrs[i].name
                        /\ new.attrs[i].value = convertAttr(orig[p].attrs[i].value)
        /\ AttrFails(orig[p]) => (result[p] # "success" /\ builds[p] = NoBuild)

\* C10 witness: an operation with two attributes, both changed by
\* convertAttr, has been converted.
C10_Witness ==
    \E p \in SourceIds :
        /\ result[p] = "success"
        /\ Len(orig[p].attrs) = 2
        /\ \A i \in 1..2 :
              ops[builds[p].op].attrs[i].value # orig[p].attrs[i].value

====
